---------------------------- MODULE Spec2Model ----------------------------
(***************************************************************************)
(* A model of video-source: the text normaliser (util.py), the transcript  *)
(* alignment engine (match.py) and the candidate evaluation loop of the    *)
(* command line (cli.py).                                                  *)
(*                                                                         *)
(* Strings are sequences of characters.  A character is a one-element      *)
(* name: "a", "b", "c" ... stand for themselves, "A" and "B" are upper-case*)
(* letters, "Idot" is U+0130 (whose lower-case form is two characters),    *)
(* "rsquo"/"lsquo"/"ldquo"/"rdquo" are the curly quotes U+2019, U+2018,    *)
(* U+201C, U+201D, "dq" is the straight double quote, "tab" is a tab,      *)
(* "comb" is the combining dot U+0307, "," is punctuation.                 *)
(*                                                                         *)
(* Floating-point numbers are exact rationals <<n, d>> with d > 0.         *)
(***************************************************************************)
EXTENDS Integers, Sequences, FiniteSets, TLC

VARIABLES
    mode,            \* which part of the program this behaviour exercises
    pc,              \* where the caller or the function under way stands
    nx,              \* normalize_text: the input string
    nout,            \* normalize_text(nx), once applied
    nout2,           \* normalize_text(normalize_text(nx)), once applied
    v_segs,          \* the caption segments: records [start, end, text]
    v_snippet,       \* the snippet, as given
    v_flat,          \* build_flat_transcript(segs), once applied
    v_located,       \* charpos_to_time on v_flat: the range asked, the overlap, the times
    v_window_words,   \* the window size handed to find_best_match
    v_window_stride,  \* the window stride handed to find_best_match
    v_windows,       \* best_fuzzy_match: the windows <<i, j>> its loop evaluated, in order
    anchored,        \* find_best_match: what exact_phrase_anchor returned
    fuzzy,           \* find_best_match: what best_fuzzy_match returned
    ret,             \* what find_best_match returned
    calls,           \* the matchers find_best_match has called, in order
    pool,            \* main: what the candidates of this run can turn out to be
    v_min_conf,      \* main: min_conf
    v_min_cov,       \* main: min_cov
    n_eval,          \* main: len(candidate_urls[: args.max_eval])
    trace,           \* main: per candidate visited, how far its evaluation went
    scored,          \* main: scored
    best_item,       \* main: best_item
    best_score,      \* main: best_score
    res,             \* main: res, once written
    found,           \* find_best_match of each transcript a candidate can have
    env_window_words,   \* main: WINDOW_WORDS in the environment
    env_window_stride,  \* main: WINDOW_STRIDE in the environment
    tok_snippet,     \* coverage_ratio, tighten_with_ngram: snippet_tokens
    tok_window,      \* coverage_ratio, tighten_with_ngram: window_tokens
    tok_cov,         \* coverage_ratio(tok_snippet, tok_window), once applied
    tok_cov_more,    \* coverage_ratio once more, the window one word longer
    tok_tightened    \* tighten_with_ngram of the window, once applied

normVars == <<nx, nout, nout2>>
matchVars == <<v_window_words, v_window_stride, v_windows, anchored, fuzzy, ret, calls>>
tokVars == <<tok_snippet, tok_window, tok_cov, tok_cov_more, tok_tightened>>
cliVars == <<pool, v_min_conf, v_min_cov, n_eval, trace, scored, best_item, best_score,
             res, found, env_window_words, env_window_stride>>
vars == <<mode, pc, nx, nout, nout2, v_segs, v_snippet, v_flat, v_located, v_window_words,
          v_window_stride, v_windows, anchored, fuzzy, ret, calls, pool, v_min_conf, v_min_cov,
          n_eval, trace, scored, best_item, best_score, res, found, env_window_words,
          env_window_stride, tok_snippet, tok_window, tok_cov, tok_cov_more,
          tok_tightened>>

(***************************************************************************)
(* Bounds of the model                                                     *)
(***************************************************************************)
MaxNormLen == 4
\* SpecFlat: the segments typed hold at most this many characters, each
\* segment counting one more
MaxFlatSize == 6
\* SpecMatch: the same measure of the typed segments plus the snippet's length
MaxRawSize == 4
\* SpecMatch: the most words of a phrase snippet
MaxSnipWords == 13
\* SpecMatch: window sizes 0..MaxWindow and strides 0..MaxStride, beside the
\* command line's defaults
MaxWindow == 2
MaxStride == 2
\* SpecMatch: the letters of a long word
LongWordLen == 30

(***************************************************************************)
(* Rationals                                                               *)
(***************************************************************************)
RECURSIVE Gcd(_, _)
Gcd(a, b) == IF b = 0 THEN a ELSE Gcd(b, a % b)

Abs(n) == IF n < 0 THEN -n ELSE n

Rat(n, d) ==
    LET g == Gcd(Abs(n), Abs(d))
        s == IF d < 0 THEN -1 ELSE 1
    IN  <<(s * n) \div g, (s * d) \div g>>

RInt(n) == <<n, 1>>
RAdd(p, q) == Rat(p[1] * q[2] + q[1] * p[2], p[2] * q[2])
RSub(p, q) == Rat(p[1] * q[2] - q[1] * p[2], p[2] * q[2])
RMul(p, q) == Rat(p[1] * q[1], p[2] * q[2])
\* The comparison of two rationals, -1, 0 or 1, by their continued fractions
\* (no product is formed, so that no intermediate value outgrows an integer).
RECURSIVE RCmp(_, _)
RCmp(p, q) ==
    LET fp == p[1] \div p[2]
        fq == q[1] \div q[2]
        rp == p[1] - fp * p[2]
        rq == q[1] - fq * q[2]
    IN  IF fp < fq THEN -1
        ELSE IF fp > fq THEN 1
        ELSE IF rp = 0 /\ rq = 0 THEN 0
        ELSE IF rp = 0 THEN -1
        ELSE IF rq = 0 THEN 1
        ELSE RCmp(<<q[2], rq>>, <<p[2], rp>>)

RLt(p, q) == RCmp(p, q) = -1
RLe(p, q) == RCmp(p, q) # 1
RMax(p, q) == IF RLt(p, q) THEN q ELSE p
RMin(p, q) == IF RLt(q, p) THEN q ELSE p

\* Python's round(): to the nearest integer, a tie to the even one.
RRound(p) ==
    LET fl == p[1] \div p[2]
        r2 == 2 * (p[1] - fl * p[2])
    IN  IF r2 < p[2] THEN fl
        ELSE IF r2 > p[2] THEN fl + 1
        ELSE IF fl % 2 = 0 THEN fl ELSE fl + 1

(***************************************************************************)
(* util.py: normalize_text, tokenize                                       *)
(***************************************************************************)
Keep == {"a", "b", "c", "d", "e", "f", "g", "h", "i", "j", "k", "l", "m", "n", "o",
         "x", "0", "'"}
Space == {" ", "tab"}

\* str.lower() on one character
LowerChar(c) ==
    CASE c = "A" -> <<"a">>
      [] c = "B" -> <<"b">>
      [] c = "Idot" -> <<"i", "comb">>
      [] OTHER -> <<c>>

\* the four .replace() calls on one character
ReplaceQuote(c) ==
    CASE c = "rsquo" -> "'"
      [] c = "lsquo" -> "'"
      [] c = "ldquo" -> "dq"
      [] c = "rdquo" -> "dq"
      [] OTHER -> c

\* the concatenation of the sequences ps[lo], ..., ps[hi]
RECURSIVE ConcatRange(_, _, _)
ConcatRange(ps, lo, hi) ==
    IF lo > hi THEN <<>>
    ELSE IF lo = hi THEN ps[lo]
    ELSE LET mid == (lo + hi) \div 2
         IN  ConcatRange(ps, lo, mid) \o ConcatRange(ps, mid + 1, hi)

Concat(ps) == ConcatRange(ps, 1, Len(ps))

Lower(s) == Concat([i \in 1..Len(s) |-> LowerChar(s[i])])

ReplaceQuotes(s) == [i \in 1..Len(s) |-> ReplaceQuote(s[i])]

\* re.sub(r"\s+", " ", s): every maximal run of whitespace becomes one space
CollapseSpace(s) ==
    Concat([i \in 1..Len(s) |->
               IF s[i] \in Space
               THEN IF i > 1 /\ s[i - 1] \in Space THEN <<>> ELSE <<" ">>
               ELSE <<s[i]>>])

\* re.sub(r"[^a-z0-9'\s]+", " ", s): every maximal run of other characters
\* becomes one space
IsPunct(c) == c \notin Keep /\ c \notin Space

StripPunct(s) ==
    Concat([i \in 1..Len(s) |->
               IF IsPunct(s[i])
               THEN IF i > 1 /\ IsPunct(s[i - 1]) THEN <<>> ELSE <<" ">>
               ELSE <<s[i]>>])

\* str.strip()
Strip(s) ==
    LET nonsp == {i \in 1..Len(s) : s[i] \notin Space}
    IN  IF nonsp = {} THEN <<>>
        ELSE LET lo == CHOOSE i \in nonsp : \A j \in nonsp : i <= j
                 hi == CHOOSE i \in nonsp : \A j \in nonsp : i >= j
             IN  SubSeq(s, lo, hi)

NormalizeNoFinalCollapse(s) == Strip(StripPunct(CollapseSpace(ReplaceQuotes(Lower(s)))))

normalize_text(s) ==
    Strip(CollapseSpace(StripPunct(CollapseSpace(ReplaceQuotes(Lower(s))))))

\* str.split(): the maximal runs of non-whitespace characters
Split(s) ==
    LET WordEnd(i) == CHOOSE j \in i..Len(s) :
                          /\ \A k \in i..j : s[k] \notin Space
                          /\ (j = Len(s) \/ s[j + 1] \in Space)
    IN  Concat([i \in 1..Len(s) |->
                   IF s[i] \notin Space /\ (i = 1 \/ s[i - 1] \in Space)
                   THEN <<SubSeq(s, i, WordEnd(i))>>
                   ELSE <<>>])

tokenize(s) ==
    LET t == normalize_text(s)
    IN  IF t # <<>> THEN Split(t) ELSE <<>>

(***************************************************************************)
(* util.py: hms.  The formatted HH:MM:SS text is the triple <<hh, mm, ss>>. *)
(***************************************************************************)
hms(seconds) ==
    LET sec == IF RLt(seconds, RInt(0)) THEN RInt(0) ELSE seconds
        s == RRound(sec)
    IN  <<s \div 3600, (s % 3600) \div 60, s % 60>>

(***************************************************************************)
(* match.py                                                                *)
(***************************************************************************)
\* anchor lengths without the shortest one
ANCHOR_NGRAMS_NoEight == <<12, 10>>

ANCHOR_NGRAMS == <<12, 10, 8>>
ExactPreviewChars == 240
AnchorPreviewChars == 240
FuzzyPreviewWords == 60
FuzzyPreviewChars == 280
NgramPreviewChars == 240
TightenMinN == 4
TightenMaxN == 12

\* 1e-6
Epsilon == Rat(1, 1000000)
\* 0.20, the coverage floor of best_fuzzy_match
CoverageFloor == Rat(20, 100)

NoResult == [tag |-> "None"]
Raised(e) == [tag |-> "Raise", error |-> e]

\* s[:n]
Take(s, n) == SubSeq(s, 1, IF Len(s) < n THEN Len(s) ELSE n)

\* " ".join(toks)
Join(toks) ==
    Concat([i \in 1..Len(toks) |-> IF i = 1 THEN toks[1] ELSE <<" ">> \o toks[i]])

\* Find that starts its search at offset 1
FindAfterStart(hay, needle) ==
    LET hits == {j \in 1..(Len(hay) - Len(needle)) :
                    SubSeq(hay, j + 1, j + Len(needle)) = needle}
    IN  IF hits = {} THEN -1
        ELSE CHOOSE j \in hits : \A k \in hits : j <= k

\* hay.find(needle): the least 0-based offset of needle in hay, or -1
Find(hay, needle) ==
    LET hits == {j \in 0..(Len(hay) - Len(needle)) :
                    SubSeq(hay, j + 1, j + Len(needle)) = needle}
    IN  IF hits = {} THEN -1
        ELSE CHOOSE j \in hits : \A k \in hits : j <= k

SetOf(seq) == {seq[i] : i \in 1..Len(seq)}

\* FlatStep without the "cur += 1" of the separator
FlatStepNoSeparatorAdvance(acc, s) ==
    LET t == normalize_text(s.text)
    IN  IF t = <<>> THEN acc
        ELSE LET sep == IF acc.text # <<>> THEN <<" ">> ELSE <<>>
                 a == acc.cur
                 b == a + Len(t)
             IN  [text |-> acc.text \o sep \o t,
                  spans |-> Append(acc.spans, [a |-> a, b |-> b, st |-> s.start, et |-> s.end]),
                  cur |-> b]

\* One loop step of build_flat_transcript: acc is (parts joined, spans, cur).
FlatStep(acc, s) ==
    LET t == normalize_text(s.text)
    IN  IF t = <<>> THEN acc
        ELSE LET sep == IF acc.text # <<>> THEN <<" ">> ELSE <<>>
                 a == acc.cur + Len(sep)
                 b == a + Len(t)
             IN  [text |-> acc.text \o sep \o t,
                  spans |-> Append(acc.spans, [a |-> a, b |-> b, st |-> s.start, et |-> s.end]),
                  cur |-> b]

build_flat_transcript(segs) ==
    LET F[i \in 0..Len(segs)] ==
            IF i = 0 THEN [text |-> <<>>, spans |-> <<>>, cur |-> 0]
            ELSE FlatStep(F[i - 1], segs[i])
    IN  [text |-> F[Len(segs)].text, spans |-> F[Len(segs)].spans]

\* A scan that keeps a span ending exactly at pos0.
RECURSIVE OverlapScanKeepTouching(_, _, _, _)
OverlapScanKeepTouching(spans, k, pos0, pos1) ==
    IF k > Len(spans) THEN <<>>
    ELSE IF spans[k].b < pos0 THEN OverlapScanKeepTouching(spans, k + 1, pos0, pos1)
    ELSE IF spans[k].a >= pos1 THEN <<>>
    ELSE <<spans[k]>> \o OverlapScanKeepTouching(spans, k + 1, pos0, pos1)

\* The scan of charpos_to_time: spans ending at or before pos0 are skipped,
\* the scan stops at the first span starting at or after pos1.
RECURSIVE OverlapScan(_, _, _, _)
OverlapScan(spans, k, pos0, pos1) ==
    IF k > Len(spans) THEN <<>>
    ELSE IF spans[k].b <= pos0 THEN OverlapScan(spans, k + 1, pos0, pos1)
    ELSE IF spans[k].a >= pos1 THEN <<>>
    ELSE <<spans[k]>> \o OverlapScan(spans, k + 1, pos0, pos1)

\* min(1.0, max(0.0, (pos - a) / float(max(1, b - a))))
Frac(pos, sp) ==
    LET span == IF sp.b - sp.a < 1 THEN 1 ELSE sp.b - sp.a
    IN  RMin(RInt(1), RMax(RInt(0), Rat(pos - sp.a, span)))

charpos_to_time(spans, pos0, pos1) ==
    LET overlap == OverlapScan(spans, 1, pos0, pos1)
    IN  IF overlap = <<>> THEN <<RInt(0), RInt(0)>>
        ELSE LET first == overlap[1]
                 last == overlap[Len(overlap)]
                 dur0 == RMax(Epsilon, RSub(first.et, first.st))
                 start_t == RAdd(first.st, RMul(Frac(pos0, first), dur0))
                 dur1 == RMax(Epsilon, RSub(last.et, last.st))
                 end_t == RAdd(last.st, RMul(Frac(pos1, last), dur1))
             IN  <<start_t, IF RLt(end_t, start_t) THEN start_t ELSE end_t>>

\* The MatchResult of a full-snippet hit at offset idx.
ExactResult(spans, sn, idx) ==
    LET t == charpos_to_time(spans, idx, idx + Len(sn))
    IN  [tag |-> "MatchResult",
         timestamp_start |-> hms(t[1]),
         timestamp_end |-> hms(t[2]),
         confidence |-> RInt(98),
         details |-> [coverage |-> RInt(1),
                      similarity |-> RInt(1),
                      evidence |-> "youtube:exact_phrase",
                      preview |-> Take(sn, ExactPreviewChars)]]

\* The candidate MatchResult of an n-word chunk found at offset j.
AnchorCand(spans, chunk_n, j, n) ==
    LET t == charpos_to_time(spans, j, j + Len(chunk_n))
    IN  [tag |-> "MatchResult",
         timestamp_start |-> hms(t[1]),
         timestamp_end |-> hms(t[2]),
         confidence |-> RAdd(RInt(80), RMin(RInt(18), RInt(n))),
         details |-> [coverage |-> RInt(1),
                      similarity |-> Rat(95, 100),
                      evidence |-> "youtube:phrase_anchor",
                      preview |-> Take(chunk_n, AnchorPreviewChars),
                      ngram_n |-> n]]

\* AnchorScan with ">=" for ">": a later hit of the same length replaces best
AnchorScanKeepLast(flat, spans, toks, n) ==
    LET F[i \in 0..(Len(toks) - n + 1)] ==
            IF i = 0 THEN NoResult
            ELSE LET best == F[i - 1]
                     chunk == Join(SubSeq(toks, i, i + n - 1))
                     chunk_n == normalize_text(chunk)
                     j == Find(flat, chunk_n)
                 IN  IF j = -1 THEN best
                     ELSE LET cand == AnchorCand(spans, chunk_n, j, n)
                          IN  IF best = NoResult \/ RLe(best.confidence, cand.confidence)
                              THEN cand
                              ELSE best
    IN  F[Len(toks) - n + 1]

\* The inner loop of exact_phrase_anchor over the chunk offsets i, for one n:
\* the value of best after it.
AnchorScan(flat, spans, toks, n) ==
    LET F[i \in 0..(Len(toks) - n + 1)] ==
            IF i = 0 THEN NoResult
            ELSE LET best == F[i - 1]
                     chunk == Join(SubSeq(toks, i, i + n - 1))
                     chunk_n == normalize_text(chunk)
                     j == Find(flat, chunk_n)
                 IN  IF j = -1 THEN best
                     ELSE LET cand == AnchorCand(spans, chunk_n, j, n)
                          IN  IF best = NoResult \/ RLt(best.confidence, cand.confidence)
                              THEN cand
                              ELSE best
    IN  F[Len(toks) - n + 1]

\* The outer loop over ANCHOR_NGRAMS, from its k-th entry on.
RECURSIVE AnchorLoop(_, _, _, _)
AnchorLoop(flat, spans, toks, k) ==
    IF k > Len(ANCHOR_NGRAMS) THEN NoResult
    ELSE LET n == ANCHOR_NGRAMS[k]
         IN  IF Len(toks) < n THEN AnchorLoop(flat, spans, toks, k + 1)
             ELSE LET best == AnchorScan(flat, spans, toks, n)
                  IN  IF best # NoResult THEN best
                      ELSE AnchorLoop(flat, spans, toks, k + 1)

MinAnchor == CHOOSE n \in SetOf(ANCHOR_NGRAMS) : \A m \in SetOf(ANCHOR_NGRAMS) : n <= m

exact_phrase_anchor(segs, snippet) ==
    LET ft == build_flat_transcript(segs)
        flat == ft.text
        sn == normalize_text(snippet)
    IN  IF sn = <<>> \/ flat = <<>> THEN NoResult
        ELSE LET idx == Find(flat, sn)
             IN  IF idx # -1 THEN ExactResult(ft.spans, sn, idx)
                 ELSE LET toks == tokenize(snippet)
                      IN  IF Len(toks) >= MinAnchor
                          THEN AnchorLoop(flat, ft.spans, toks, 1)
                          ELSE NoResult

\* jaccard over the token sets
jaccard(a, b) ==
    LET sa == SetOf(a)
        sb == SetOf(b)
    IN  IF sa = {} \/ sb = {} THEN RInt(0)
        ELSE Rat(Cardinality(sa \cap sb), Cardinality(sa \cup sb))

\* coverage_ratio over the union of the two token sets (the Jaccard index)
coverage_ratio_OverUnion(snippet_tokens, window_tokens) ==
    IF snippet_tokens = <<>> THEN RInt(0)
    ELSE LET sw == SetOf(window_tokens)
             hit == Cardinality({t \in SetOf(snippet_tokens) : t \in sw})
         IN  Rat(hit, Cardinality(SetOf(snippet_tokens) \cup sw))

coverage_ratio(snippet_tokens, window_tokens) ==
    IF snippet_tokens = <<>> THEN RInt(0)
    ELSE LET sw == SetOf(window_tokens)
             hit == Cardinality({t \in SetOf(snippet_tokens) : t \in sw})
         IN  Rat(hit, Cardinality(SetOf(snippet_tokens)))

Min2(a, b) == IF a < b THEN a ELSE b
Min3(a, b, c) == Min2(a, Min2(b, c))
Max2(a, b) == IF a > b THEN a ELSE b

\* idx without "if key not in idx": the last position of the n-gram
NgramIndexLast(window_tokens, n, key) ==
    LET at == {i \in 0..(Len(window_tokens) - n) : SubSeq(window_tokens, i + 1, i + n) = key}
    IN  IF at = {} THEN -1 ELSE CHOOSE i \in at : \A k \in at : i >= k

\* idx of tighten_with_ngram: the first position of the n-gram key in the
\* window, or -1 when the window has no such n-gram
NgramIndex(window_tokens, n, key) ==
    LET at == {i \in 0..(Len(window_tokens) - n) : SubSeq(window_tokens, i + 1, i + n) = key}
    IN  IF at = {} THEN -1 ELSE CHOOSE i \in at : \A k \in at : i <= k

\* the scan of the snippet n-grams of length n, from offset j on
RECURSIVE TightenScan(_, _, _, _, _)
TightenScan(window_tokens, window_word_times, snippet_tokens, n, j) ==
    IF j > Len(snippet_tokens) - n THEN NoResult
    ELSE LET key == SubSeq(snippet_tokens, j + 1, j + n)
             i0 == NgramIndex(window_tokens, n, key)
         IN  IF i0 # -1
             THEN [tag |-> "Tightened",
                   st |-> window_word_times[i0 + 1][1],
                   et |-> window_word_times[i0 + n][2],
                   key |-> Join(key),
                   n |-> n]
             ELSE TightenScan(window_tokens, window_word_times, snippet_tokens, n, j + 1)

\* the loop over n, from max_n down to min_n
RECURSIVE TightenLoop(_, _, _, _, _)
TightenLoop(window_tokens, window_word_times, snippet_tokens, n, min_n) ==
    IF n < min_n THEN NoResult
    ELSE LET r == TightenScan(window_tokens, window_word_times, snippet_tokens, n, 0)
         IN  IF r # NoResult THEN r
             ELSE TightenLoop(window_tokens, window_word_times, snippet_tokens, n - 1, min_n)

tighten_with_ngram(window_tokens, window_word_times, snippet_tokens, min_n, max_n) ==
    IF window_tokens = <<>> \/ snippet_tokens = <<>> THEN NoResult
    ELSE TightenLoop(window_tokens, window_word_times, snippet_tokens,
                     Min3(max_n, Len(snippet_tokens), Len(window_tokens)), min_n)

\* round(x, 3)
Round3(x) == Rat(RRound(RMul(x, RInt(1000))), 1000)

\* score = (cov * 100.0) + (sim * 40.0) - (length_penalty * 5.0)
FuzzyScore(cov, sim, length_penalty) ==
    RSub(RAdd(RMul(cov, RInt(100)), RMul(sim, RInt(40))), RMul(length_penalty, RInt(5)))

\* the token stream of best_fuzzy_match: every word with its segment's times
WordStream(segs) ==
    LET F[k \in 0..Len(segs)] ==
            IF k = 0 THEN [words |-> <<>>, word_times |-> <<>>]
            ELSE LET prev == F[k - 1]
                     w == tokenize(segs[k].text)
                 IN  [words |-> prev.words \o w,
                      word_times |-> prev.word_times
                                     \o [x \in 1..Len(w) |-> <<segs[k].start, segs[k].end>>]]
    IN  F[Len(segs)]

\* The body of the window loop of best_fuzzy_match at offset i: the state
\* (best, best_score) after it.  best_score = -1e18 is has_best = FALSE.
FuzzyWindow(acc, words, word_times, snippet_tokens, i, W) ==
    LET j == Min2(Len(words), i + W)
        window_tokens == SubSeq(words, i + 1, j)
        cov == coverage_ratio(snippet_tokens, window_tokens)
    IN  IF RLt(cov, CoverageFloor) THEN acc
        ELSE LET sim == jaccard(snippet_tokens, window_tokens)
                 length_penalty == RMin(RInt(1), Rat(Len(window_tokens),
                                                     Max2(1, Len(snippet_tokens))))
                 score == FuzzyScore(cov, sim, length_penalty)
                 tightened == tighten_with_ngram(window_tokens, SubSeq(word_times, i + 1, j),
                                                 snippet_tokens, TightenMinN, TightenMaxN)
                 st == IF tightened # NoResult THEN tightened.st ELSE word_times[i + 1][1]
                 et == IF tightened # NoResult THEN tightened.et ELSE word_times[j][2]
                 preview == Join(SubSeq(window_tokens, 1,
                                        Min2(Len(window_tokens), FuzzyPreviewWords)))
                 base == [coverage |-> Round3(cov),
                          similarity |-> Round3(sim),
                          evidence |-> "youtube:timed_transcript",
                          preview |-> Take(preview, FuzzyPreviewChars)]
                 details == IF tightened # NoResult
                            THEN base @@ [tightened_by_ngram |-> TRUE,
                                          ngram_n |-> tightened.n,
                                          ngram |-> Take(tightened.key, NgramPreviewChars)]
                            ELSE base @@ [tightened_by_ngram |-> FALSE]
             IN  IF ~acc.has_best \/ RLt(acc.best_score, score)
                 THEN [has_best |-> TRUE,
                       best_score |-> score,
                       best |-> [tag |-> "MatchResult",
                                 timestamp_start |-> hms(st),
                                 timestamp_end |-> hms(et),
                                 confidence |-> score,
                                 details |-> details]]
                 ELSE acc

\* range(0, stop, stride) as the sequence of its values (stride >= 1)
Range0(stop, stride) == [k \in 1..((stop + stride - 1) \div stride) |-> (k - 1) * stride]

\* FuzzyLoop with ">=" for ">": a later window of the same score replaces
\* best (the windows are taken last to first, the first of a score kept)
FuzzyLoopKeepLast(words, word_times, snippet_tokens, window_words, window_stride) ==
    IF window_stride = 0 THEN Raised("ValueError")
    ELSE LET starts == Range0(Max2(1, Len(words) - window_words + 1), window_stride)
             F[k \in 0..Len(starts)] ==
                 IF k = 0 THEN [has_best |-> FALSE, best_score |-> RInt(0), best |-> NoResult]
                 ELSE FuzzyWindow(F[k - 1], words, word_times, snippet_tokens,
                                  starts[Len(starts) + 1 - k], window_words)
         IN  F[Len(starts)].best

\* The window loop of best_fuzzy_match, lines 237-283: range() raises
\* ValueError for a step of 0.
FuzzyLoop(words, word_times, snippet_tokens, window_words, window_stride) ==
    IF window_stride = 0 THEN Raised("ValueError")
    ELSE LET starts == Range0(Max2(1, Len(words) - window_words + 1), window_stride)
             F[k \in 0..Len(starts)] ==
                 IF k = 0 THEN [has_best |-> FALSE, best_score |-> RInt(0), best |-> NoResult]
                 ELSE FuzzyWindow(F[k - 1], words, word_times, snippet_tokens,
                                  starts[k], window_words)
         IN  F[Len(starts)].best

\* best_fuzzy_match without "if not words: return None"
best_fuzzy_match_NoWordsGuard(segs, snippet, window_words, window_stride) ==
    LET snippet_tokens == tokenize(snippet)
        ws == WordStream(segs)
    IN  IF snippet_tokens = <<>> THEN NoResult
        ELSE FuzzyLoop(ws.words, ws.word_times, snippet_tokens, window_words, window_stride)

\* lines 243-245: the windows (i, j) the loop of best_fuzzy_match takes, in
\* order; none when the function returns or raises before the loop
EvaluatedWindows(segs, snippet, window_words, window_stride) ==
    LET snippet_tokens == tokenize(snippet)
        words == WordStream(segs).words
    IN  IF snippet_tokens = <<>> \/ words = <<>> \/ window_stride = 0 THEN <<>>
        ELSE LET starts == Range0(Max2(1, Len(words) - window_words + 1), window_stride)
             IN  [k \in 1..Len(starts) |->
                     <<starts[k], Min2(Len(words), starts[k] + window_words)>>]

best_fuzzy_match(segs, snippet, window_words, window_stride) ==
    LET snippet_tokens == tokenize(snippet)
        ws == WordStream(segs)
    IN  IF snippet_tokens = <<>> THEN NoResult
        ELSE IF ws.words = <<>> THEN NoResult
        ELSE FuzzyLoop(ws.words, ws.word_times, snippet_tokens, window_words, window_stride)

(***************************************************************************)
(* Specification SpecNorm: normalize_text applied to every string of at    *)
(* most MaxNormLen characters, and to its own output.                      *)
(***************************************************************************)
NormChars == {"a", "A", "'", "rsquo", "ldquo", ",", " ", "tab", "Idot"}

IdleSegs == /\ v_segs = <<>> /\ v_snippet = <<>> /\ v_flat = NoResult /\ v_located = NoResult
IdleNorm == /\ nx = <<>> /\ nout = <<>> /\ nout2 = <<>>
IdleMatch ==
    /\ v_window_words = 0
    /\ v_window_stride = 0
    /\ v_windows = <<>>
    /\ anchored = NoResult
    /\ fuzzy = NoResult
    /\ ret = NoResult
    /\ calls = <<>>
IdleCli ==
    /\ pool = "none"
    /\ v_min_conf = RInt(0)
    /\ v_min_cov = RInt(0)
    /\ n_eval = 0
    /\ trace = <<>>
    /\ scored = <<>>
    /\ best_item = NoResult
    /\ best_score = RInt(0)
    /\ res = NoResult
    /\ found = <<>>
    /\ env_window_words = [set |-> FALSE, value |-> 0]
    /\ env_window_stride = [set |-> FALSE, value |-> 0]
IdleTok ==
    /\ tok_snippet = <<>>
    /\ tok_window = <<>>
    /\ tok_cov = RInt(0)
    /\ tok_cov_more = RInt(0)
    /\ tok_tightened = NoResult

NormInit ==
    /\ mode = "norm"
    /\ pc = "input"
    /\ IdleCli
    /\ IdleTok
    /\ IdleNorm
    /\ IdleSegs
    /\ IdleMatch

\* the caller extends the string by one character
NormTypeChar ==
    /\ mode = "norm"
    /\ pc = "input"
    /\ Len(nx) < MaxNormLen
    /\ \E c \in NormChars : nx' = Append(nx, c)
    /\ UNCHANGED <<v_located, tokVars, cliVars, mode, pc, nout, nout2, v_segs, v_snippet, v_flat, matchVars>>

NormApply ==
    /\ mode = "norm"
    /\ pc = "input"
    /\ nout' = normalize_text(nx)
    /\ pc' = "once"
    /\ UNCHANGED <<v_located, tokVars, cliVars, mode, nx, nout2, v_segs, v_snippet, v_flat, matchVars>>

NormApplyAgain ==
    /\ mode = "norm"
    /\ pc = "once"
    /\ nout2' = normalize_text(nout)
    /\ pc' = "twice"
    /\ UNCHANGED <<v_located, tokVars, cliVars, mode, nx, nout, v_segs, v_snippet, v_flat, matchVars>>

NormNext == NormTypeChar \/ NormApply \/ NormApplyAgain

SpecNorm == NormInit /\ [][NormNext]_vars

\* C8: normalize_text is idempotent: applied to its own output, it returns
\* that output unchanged.
C8_NormalizeIdempotent ==
    (mode = "norm" /\ pc = "twice") => (nout = normalize_text(nx) /\ nout2 = nout)

\* normalize_text was applied twice to a string it changes: upper case,
\* punctuation and a run of whitespace
C8_Witness ==
    /\ mode = "norm"
    /\ pc = "twice"
    /\ nx = <<"A", ",", " ", "tab">>
    /\ nout = <<"a">>
    /\ nout2 = nout

(***************************************************************************)
(* Specification SpecFlat: build_flat_transcript applied to every list of  *)
(* segments within MaxFlatSize.  Segment k runs from 2(k-1) s to 2k s.     *)
(***************************************************************************)
SegChars == {"a", "b", " ", ","}

RECURSIVE SegsSize(_)
SegsSize(ss) == IF ss = <<>> THEN 0 ELSE 1 + Len(ss[1].text) + SegsSize(Tail(ss))

NewSeg(k) == [start |-> RInt(2 * (k - 1)), end |-> RInt(2 * k), text |-> <<>>]

FlatInit ==
    /\ mode = "flat"
    /\ pc = "input"
    /\ IdleCli
    /\ IdleTok
    /\ IdleNorm
    /\ IdleSegs
    /\ IdleMatch

\* the decoder hands over one more segment
FlatNewSeg ==
    /\ mode = "flat"
    /\ pc = "input"
    /\ SegsSize(v_segs) < MaxFlatSize
    /\ v_segs' = Append(v_segs, NewSeg(Len(v_segs) + 1))
    /\ UNCHANGED <<v_located, tokVars, cliVars, mode, pc, normVars, v_snippet, v_flat, matchVars>>

\* the text of the last segment grows by one character
FlatTypeChar ==
    /\ mode = "flat"
    /\ pc = "input"
    /\ v_segs # <<>>
    /\ SegsSize(v_segs) < MaxFlatSize
    /\ \E c \in SegChars :
          v_segs' = [v_segs EXCEPT ![Len(v_segs)].text = Append(@, c)]
    /\ UNCHANGED <<v_located, tokVars, cliVars, mode, pc, normVars, v_snippet, v_flat, matchVars>>

FlatBuild ==
    /\ mode = "flat"
    /\ pc = "input"
    /\ v_flat' = build_flat_transcript(v_segs)
    /\ pc' = "built"
    /\ UNCHANGED <<v_located, tokVars, cliVars, mode, normVars, v_segs, v_snippet, matchVars>>

\* charpos_to_time(spans, pos0, pos1) on the spans just built, for a range
\* pos0 < pos1 that may lie on a separator or past the end of the text
FlatLocate ==
    /\ mode = "flat"
    /\ pc = "built"
    /\ \E pos0 \in 0..(Len(v_flat.text) + 1), pos1 \in 1..(Len(v_flat.text) + 2) :
          /\ pos0 < pos1
          /\ v_located' = [pos0 |-> pos0, pos1 |-> pos1,
                           overlap |-> OverlapScan(v_flat.spans, 1, pos0, pos1),
                           times |-> charpos_to_time(v_flat.spans, pos0, pos1)]
    /\ pc' = "located"
    /\ UNCHANGED <<tokVars, cliVars, mode, normVars, v_segs, v_snippet, v_flat, matchVars>>

FlatNext == FlatNewSeg \/ FlatTypeChar \/ FlatBuild \/ FlatLocate

SpecFlat == FlatInit /\ [][FlatNext]_vars

\* the spans that intersect the half-open range [pos0, pos1)
Intersects(sp, pos0, pos1) == sp.b > pos0 /\ sp.a < pos1

\* a sequence with the elements of s that intersect [pos0, pos1), in order
RECURSIVE Intersecting(_, _, _)
Intersecting(s, pos0, pos1) ==
    IF s = <<>> THEN <<>>
    ELSE (IF Intersects(Head(s), pos0, pos1) THEN <<Head(s)>> ELSE <<>>)
         \o Intersecting(Tail(s), pos0, pos1)

\* the indices of the segments whose normalized text is not empty, in order
RECURSIVE KeptFrom(_, _)
KeptFrom(ss, i) ==
    IF i > Len(ss) THEN <<>>
    ELSE IF normalize_text(ss[i].text) # <<>> THEN <<i>> \o KeptFrom(ss, i + 1)
    ELSE KeptFrom(ss, i + 1)

\* C9: build_flat_transcript yields one span per segment whose normalized
\* text is not empty, in segment order; the spans do not overlap and
\* strictly increase; the flat text under a span is that segment's normalized
\* text; each span starts one character, a space, after the one before it
\* ends; the flat text has no leading, trailing or doubled space.
C9_FlatSpans ==
    (mode = "flat" /\ pc = "built") =>
        LET kept == KeptFrom(v_segs, 1)
            sp == v_flat.spans
            text == v_flat.text
        IN  /\ Len(sp) = Len(kept)
            /\ \A k \in 1..Len(sp) :
                  /\ sp[k].a < sp[k].b
                  /\ SubSeq(text, sp[k].a + 1, sp[k].b) = normalize_text(v_segs[kept[k]].text)
                  /\ sp[k].st = v_segs[kept[k]].start
                  /\ sp[k].et = v_segs[kept[k]].end
                  /\ (k = 1 => sp[k].a = 0)
                  /\ (k > 1 => /\ sp[k].a = sp[k - 1].b + 1
                               /\ text[sp[k].a] = " ")
                  /\ (k = Len(sp) => sp[k].b = Len(text))
            /\ \A k, l \in 1..Len(sp) :
                  k < l => (sp[k].a < sp[l].a /\ sp[k].b <= sp[l].a)
            /\ (sp = <<>> => text = <<>>)
            /\ (text # <<>> => (text[1] # " " /\ text[Len(text)] # " "))
            /\ \A i \in 1..(Len(text) - 1) : ~(text[i] = " " /\ text[i + 1] = " ")

\* three segments were flattened, the middle one empty once normalized
C9_Witness ==
    /\ mode = "flat"
    /\ pc = "built"
    /\ Len(v_segs) = 3
    /\ v_segs[1].text = <<"a">>
    /\ v_segs[2].text = <<",">>
    /\ v_segs[3].text = <<"b">>
    /\ v_flat.text = <<"a", " ", "b">>
    /\ Len(v_flat.spans) = 2
    /\ v_flat.spans[2].a = 2
    /\ v_flat.spans[2].st = RInt(4)

\* C15: on the spans build_flat_transcript produced and for any pos0 < pos1,
\* the overlap scan of charpos_to_time selects exactly the spans with
\* b > pos0 and a < pos1, in their order; when there is none the function
\* returns (0.0, 0.0).
C15_OverlapScan ==
    (mode = "flat" /\ pc = "located") =>
        /\ v_located.pos0 < v_located.pos1
        /\ v_located.overlap = Intersecting(v_flat.spans, v_located.pos0, v_located.pos1)
        /\ (Intersecting(v_flat.spans, v_located.pos0, v_located.pos1) = <<>>
              => v_located.times = <<RInt(0), RInt(0)>>)

\* three one-letter segments; the range [1, 3) holds the first separator and
\* the second letter: the first span ends at pos0, the third starts after
\* pos1, and the scan selected the second span only
C15_Witness ==
    /\ mode = "flat"
    /\ pc = "located"
    /\ v_flat.text = <<"a", " ", "b", " ", "a">>
    /\ Len(v_flat.spans) = 3
    /\ v_located.pos0 = 1
    /\ v_located.pos1 = 3
    /\ v_located.overlap = <<v_flat.spans[2]>>

(***************************************************************************)
(* match.py: find_best_match, lines 286-292, as the steps of one call.     *)
(***************************************************************************)
\* AfterAnchor that returns an exact_phrase result only
AfterAnchorExactOnly(anchored_result) ==
    IF anchored_result # NoResult /\ anchored_result.details.evidence = "youtube:exact_phrase"
    THEN "return"
    ELSE "fallback"

\* "if anchored:": a MatchResult is truthy, None is not
AfterAnchor(anchored_result) ==
    IF anchored_result # NoResult THEN "return" ELSE "fallback"

(***************************************************************************)
(* Specification SpecMatch: find_best_match called on                      *)
(*  - raw inputs: every list of segments and every snippet typed character *)
(*    by character, within MaxRawSize;                                     *)
(*  - phrase inputs: a snippet of L <= MaxSnipWords distinct one-letter    *)
(*    words, against a transcript that repeats these words with at most    *)
(*    one of them replaced, in one segment or in two;                      *)
(*  - long-word inputs: the same with words of LongWordLen letters, for    *)
(*    snippets of 8 and 9 words.                                           *)
(* best_fuzzy_match is the first to read the window size and the stride,   *)
(* so they are drawn when it is called.                                    *)
(***************************************************************************)
WINDOW_WORDS_DEFAULT == 80
WINDOW_STRIDE_DEFAULT == 12

BaseLetters == <<"a", "b", "c", "d", "e", "f", "g", "h", "i", "j", "k", "l", "m", "n", "o">>

PhraseWord(k, wl) == [i \in 1..wl |-> BaseLetters[k]]

\* the snippet of L words; with punct its first letter is upper case and the
\* words are separated by a comma and a space
PhraseSnippet(L, wl, punct) ==
    Concat([i \in 1..L |->
               IF i = 1 THEN (IF punct THEN <<"A">> \o Tail(PhraseWord(1, wl))
                              ELSE PhraseWord(1, wl))
               ELSE (IF punct THEN <<",", " ">> ELSE <<" ">>) \o PhraseWord(i, wl)])

\* the transcript's words: word r (if any) is replaced by "x" or prefixed by it
PhraseTranscript(L, wl, r, kind) ==
    [i \in 1..L |-> IF i # r THEN PhraseWord(i, wl)
                    ELSE IF kind = "subst" THEN <<"x">>
                    ELSE <<"x">> \o PhraseWord(i, wl)]

\* one segment (k = 0) or two, the first of k words
PhraseSegs(L, wl, r, kind, k) ==
    LET tw == PhraseTranscript(L, wl, r, kind)
    IN  IF L = 0 THEN <<>>
        ELSE IF k = 0 THEN <<[NewSeg(1) EXCEPT !.text = Join(tw)]>>
        ELSE <<[NewSeg(1) EXCEPT !.text = Join(SubSeq(tw, 1, k))],
               [NewSeg(2) EXCEPT !.text = Join(SubSeq(tw, k + 1, L))]>>

\* the two segments as a caption file lists them when its second cue is
\* timed before its first: each segment still has end >= start
PhraseSegsRewound(L, wl, r, kind, k) ==
    LET tw == PhraseTranscript(L, wl, r, kind)
    IN  <<[NewSeg(3) EXCEPT !.text = Join(SubSeq(tw, 1, k))],
          [NewSeg(1) EXCEPT !.text = Join(SubSeq(tw, k + 1, L))]>>

MatchInit ==
    /\ mode \in {"raw", "phrase"}
    /\ pc = "input"
    /\ IdleCli
    /\ IdleTok
    /\ IdleNorm
    /\ v_flat = NoResult
    /\ v_located = NoResult
    /\ IdleMatch
    /\ IF mode = "raw" THEN v_segs = <<>> /\ v_snippet = <<>>
       ELSE \/ \E L \in 0..MaxSnipWords, r \in 0..MaxSnipWords, k \in 0..MaxSnipWords,
                  kind \in {"subst", "glue"}, punct \in BOOLEAN :
                  /\ r <= L
                  /\ k \in {0, L \div 2}
                  /\ v_segs = PhraseSegs(L, 1, r, kind, k)
                  /\ v_snippet = PhraseSnippet(L, 1, punct)
            \/ \E L \in 2..MaxSnipWords, r \in 0..MaxSnipWords, kind \in {"subst", "glue"} :
                  /\ r <= L
                  /\ v_segs = PhraseSegsRewound(L, 1, r, kind, L \div 2)
                  /\ v_snippet = PhraseSnippet(L, 1, FALSE)
            \/ \E L \in {8, 9}, r \in {0, 8, 9} :
                  /\ r <= L
                  /\ v_segs = PhraseSegs(L, LongWordLen, r, "subst", 0)
                  /\ v_snippet = PhraseSnippet(L, LongWordLen, FALSE)

RawSize == SegsSize(v_segs) + Len(v_snippet)

\* the decoder hands over one more segment
MatchNewSeg ==
    /\ mode = "raw"
    /\ pc = "input"
    /\ v_snippet = <<>>
    /\ RawSize < MaxRawSize
    /\ v_segs' = Append(v_segs, NewSeg(Len(v_segs) + 1))
    /\ UNCHANGED <<v_located, tokVars, cliVars, mode, pc, normVars, v_snippet, v_flat, matchVars>>

\* the text of the last segment grows by one character
MatchTypeSegChar ==
    /\ mode = "raw"
    /\ pc = "input"
    /\ v_snippet = <<>>
    /\ v_segs # <<>>
    /\ RawSize < MaxRawSize
    /\ \E c \in SegChars :
          v_segs' = [v_segs EXCEPT ![Len(v_segs)].text = Append(@, c)]
    /\ UNCHANGED <<v_located, tokVars, cliVars, mode, pc, normVars, v_snippet, v_flat, matchVars>>

\* the snippet grows by one character
MatchTypeSnippetChar ==
    /\ mode = "raw"
    /\ pc = "input"
    /\ RawSize < MaxRawSize
    /\ \E c \in SegChars : v_snippet' = Append(v_snippet, c)
    /\ UNCHANGED <<v_located, tokVars, cliVars, mode, pc, normVars, v_segs, v_flat, matchVars>>

\* find_best_match, line 288: anchored = exact_phrase_anchor(segs, snippet)
CallExactPhraseAnchor ==
    /\ mode \in {"raw", "phrase"}
    /\ pc = "input"
    /\ anchored' = exact_phrase_anchor(v_segs, v_snippet)
    /\ calls' = Append(calls, "exact_phrase_anchor")
    /\ pc' = "anchored"
    /\ UNCHANGED <<v_located, tokVars, cliVars, mode, normVars, v_segs, v_snippet, v_flat, v_window_words,
                   v_window_stride, v_windows, fuzzy, ret>>

\* lines 289-290: return anchored
ReturnAnchored ==
    /\ mode \in {"raw", "phrase"}
    /\ pc = "anchored"
    /\ AfterAnchor(anchored) = "return"
    /\ ret' = anchored
    /\ pc' = "done"
    /\ UNCHANGED <<v_located, tokVars, cliVars, mode, normVars, v_segs, v_snippet, v_flat, v_window_words,
                   v_window_stride, v_windows, anchored, fuzzy, calls>>

\* line 292: return best_fuzzy_match(segs, snippet, window_words, window_stride)
CallBestFuzzyMatch ==
    /\ mode \in {"raw", "phrase"}
    /\ pc = "anchored"
    /\ AfterAnchor(anchored) = "fallback"
    /\ \E W \in (0..MaxWindow) \cup {WINDOW_WORDS_DEFAULT},
          S \in (0..MaxStride) \cup {WINDOW_STRIDE_DEFAULT} :
          /\ v_window_words' = W
          /\ v_window_stride' = S
          /\ fuzzy' = best_fuzzy_match(v_segs, v_snippet, W, S)
          /\ v_windows' = EvaluatedWindows(v_segs, v_snippet, W, S)
    /\ calls' = Append(calls, "best_fuzzy_match")
    /\ ret' = fuzzy'
    /\ pc' = "done"
    /\ UNCHANGED <<v_located, tokVars, cliVars, mode, normVars, v_segs, v_snippet, v_flat, anchored>>

MatchNext ==
    \/ MatchNewSeg
    \/ MatchTypeSegChar
    \/ MatchTypeSnippetChar
    \/ CallExactPhraseAnchor
    \/ ReturnAnchored
    \/ CallBestFuzzyMatch

SpecMatch == MatchInit /\ [][MatchNext]_vars

InMatch == mode \in {"raw", "phrase"}

\* needle occurs in hay, as a contiguous run of characters
Occurs(needle, hay) ==
    \E j \in 0..(Len(hay) - Len(needle)) : SubSeq(hay, j + 1, j + Len(needle)) = needle

\* the segments' texts as given, one space between two of them
ConcatTexts(ss) == Concat([i \in 1..Len(ss) |-> IF i = 1 THEN ss[1].text ELSE <<" ">> \o ss[i].text])

IsExactPhrase(r) ==
    /\ r.tag = "MatchResult"
    /\ r.details.evidence = "youtube:exact_phrase"
    /\ r.confidence = RInt(98)
    /\ r.details.coverage = RInt(1)

\* C1, as amended: for every snippet whose normalized text is not empty and
\* occurs in the normalized concatenation of the segment texts,
\* exact_phrase_anchor returns evidence exact_phrase, confidence 98.0 and
\* coverage 1.0.
C1_ExactPhraseNormalized ==
    (InMatch /\ pc \in {"anchored", "done"}) =>
        LET sn == normalize_text(v_snippet)
        IN  (sn # <<>> /\ Occurs(sn, normalize_text(ConcatTexts(v_segs))))
                => IsExactPhrase(anchored)

\* C1, as stated: for every snippet that is not empty (once trimmed) and is a
\* case- and punctuation-insensitive substring of the concatenated segment
\* texts, exact_phrase_anchor returns evidence exact_phrase, confidence 98.0
\* and coverage 1.0.
C1_ExactPhraseAsStated ==
    (InMatch /\ pc \in {"anchored", "done"}) =>
        ((Strip(v_snippet) # <<>>
             /\ Occurs(normalize_text(v_snippet), normalize_text(ConcatTexts(v_segs))))
                => IsExactPhrase(anchored))

\* the snippet "A, b, c, d" was found across the two segments "a b" and "c d"
C1_Witness ==
    /\ InMatch
    /\ pc = "anchored"
    /\ v_snippet = <<"A", ",", " ", "b", ",", " ", "c", ",", " ", "d">>
    /\ Len(v_segs) = 2
    /\ v_segs[1].text = <<"a", " ", "b">>
    /\ v_segs[2].text = <<"c", " ", "d">>
    /\ IsExactPhrase(anchored)

IsTimedTranscript(r) ==
    /\ r.tag = "MatchResult"
    /\ r.details.evidence = "youtube:timed_transcript"

\* C3: find_best_match returns what exact_phrase_anchor returned whenever
\* that is not none, and then best_fuzzy_match was not called; it returns a
\* timed_transcript result only when exact_phrase_anchor returned none, and
\* none only when both matchers returned none.
C3_AnchorBeforeFuzzy ==
    (InMatch /\ pc = "done") =>
        /\ anchored = exact_phrase_anchor(v_segs, v_snippet)
        /\ (anchored # NoResult =>
               (ret = anchored /\ calls = <<"exact_phrase_anchor">>))
        /\ (anchored = NoResult =>
               /\ calls = <<"exact_phrase_anchor", "best_fuzzy_match">>
               /\ fuzzy = best_fuzzy_match(v_segs, v_snippet, v_window_words, v_window_stride)
               /\ ret = fuzzy)
        /\ (IsTimedTranscript(ret) => anchored = NoResult)
        /\ (ret = NoResult => (anchored = NoResult /\ fuzzy = NoResult))

\* a call that returned a phrase_anchor result without calling
\* best_fuzzy_match
C3_Witness ==
    /\ InMatch
    /\ pc = "done"
    /\ anchored # NoResult
    /\ anchored.details.evidence = "youtube:phrase_anchor"
    /\ ret = anchored
    /\ calls = <<"exact_phrase_anchor">>

\* C7: exact_phrase_anchor, best_fuzzy_match and find_best_match return none,
\* and do not raise, when the snippet is empty once trimmed (whatever the
\* segments) and when there is no segment (whatever the snippet).
C7_EmptyInputsGiveNone ==
    (InMatch /\ (Strip(v_snippet) = <<>> \/ v_segs = <<>>)) =>
        /\ (pc \in {"anchored", "done"} => anchored = NoResult)
        /\ (pc = "done" =>
               /\ calls = <<"exact_phrase_anchor", "best_fuzzy_match">>
               /\ fuzzy = NoResult
               /\ ret = NoResult)

\* find_best_match returned none for a whitespace-only snippet against a
\* segment with text, with a stride of 0
C7_Witness ==
    /\ InMatch
    /\ pc = "done"
    /\ v_snippet = <<" ", " ">>
    /\ Len(v_segs) = 1
    /\ v_segs[1].text = <<"a">>
    /\ v_window_stride = 0
    /\ ret = NoResult

\* the snippet's words i..i+n-1, one space between two of them
SnippetRun(toks, i, n) == Join(SubSeq(toks, i, i + n - 1))

\* the offsets i at which the n-word run of the snippet occurs in flat
RunHits(toks, n, flat) ==
    {i \in 1..(Len(toks) - n + 1) : Occurs(SnippetRun(toks, i, n), flat)}

LeastOf(S) == CHOOSE i \in S : \A k \in S : i <= k
GreatestOf(S) == CHOOSE i \in S : \A k \in S : i >= k

IsPhraseAnchor(r) ==
    /\ r.tag = "MatchResult"
    /\ r.details.evidence = "youtube:phrase_anchor"

\* What C10 says of a call whose normalized snippet does not occur in the
\* flat transcript; the preview it expects is the window, or with cut its
\* first 240 characters.
C10_Body(cut) ==
    (InMatch /\ pc \in {"anchored", "done"}) =>
        LET flat == normalize_text(ConcatTexts(v_segs))
            toks == tokenize(v_snippet)
            lens == {n \in {12, 10, 8} : RunHits(toks, n, flat) # {}}
        IN  ~Occurs(normalize_text(v_snippet), flat) =>
               /\ IsPhraseAnchor(anchored) <=> (Len(toks) >= 8 /\ lens # {})
               /\ ~IsPhraseAnchor(anchored) => anchored = NoResult
               /\ IsPhraseAnchor(anchored) =>
                     LET n == GreatestOf(lens)
                         i == LeastOf(RunHits(toks, n, flat))
                     IN  /\ anchored.details.ngram_n = n
                         /\ anchored.confidence = RInt(80 + n)
                         /\ anchored.details.preview =
                                (IF cut THEN Take(SnippetRun(toks, i, n), 240)
                                 ELSE SnippetRun(toks, i, n))

\* C10, as amended: when the normalized snippet is not a substring of the
\* flat transcript, exact_phrase_anchor returns a phrase_anchor result if and
\* only if the snippet has at least 8 tokens and some 12-, 10- or 8-word run
\* of them occurs in the flat text; ngram_n is the largest of 12, 10, 8 with
\* a hit, the confidence is 80 + ngram_n, and the preview is the first 240
\* characters of the leftmost snippet window of that length that hits.
C10_AnchorFallback == C10_Body(TRUE)

\* C10, as stated: the same, the preview being the leftmost snippet window
\* of that length that hits.
C10_AnchorFallbackAsStated == C10_Body(FALSE)

\* an anchor of 10 words was returned where two 10-word windows hit and no
\* 12-word window does: the snippet's 13 words, the 12th replaced in the
\* transcript
C10_Witness ==
    /\ InMatch
    /\ pc = "anchored"
    /\ Len(tokenize(v_snippet)) = 13
    /\ IsPhraseAnchor(anchored)
    /\ anchored.details.ngram_n = 10
    /\ Cardinality(RunHits(tokenize(v_snippet), 10, normalize_text(ConcatTexts(v_segs)))) = 2
    /\ anchored.details.preview = SnippetRun(tokenize(v_snippet), 1, 10)


(***************************************************************************)
(* match.py: find_best_match, lines 286-292, as one call.                  *)
(***************************************************************************)
find_best_match(segs, snippet, window_words, window_stride) ==
    LET anchored_result == exact_phrase_anchor(segs, snippet)
    IN  IF AfterAnchor(anchored_result) = "return" THEN anchored_result
        ELSE best_fuzzy_match(segs, snippet, window_words, window_stride)

(***************************************************************************)
(* cli.py: main, the thresholds and windows of lines 83-90 and the         *)
(* evaluation of the candidates, lines 212-398.                            *)
(***************************************************************************)
MIN_CONFIDENCE_DEFAULT == 70
MIN_COVERAGE_DEFAULT == Rat(55, 100)
ExactTierOffset == 1000000
AnchorTierOffset == 900000
MaxAlternatives == 5

\* only a negative window size or stride is replaced by its default
WindowOrDefaultBelowZero(value, default) == IF value < 0 THEN default ELSE value

\* lines 87-90: a window size or stride below 1 is replaced by its default
WindowOrDefault(value, default) == IF value < 1 THEN default ELSE value

\* lines 30-40, _env_int: the default when the variable is not set (or empty,
\* or not a number), the number it holds otherwise
env_int(raw, default) == IF raw.set THEN raw.value ELSE default

\* the score is the confidence, whatever the evidence
RankScoreNoTier(evidence, conf) == conf

\* lines 292-297
RankScore(evidence, conf) ==
    IF evidence = "youtube:exact_phrase" THEN RAdd(RInt(ExactTierOffset), conf)
    ELSE IF evidence = "youtube:phrase_anchor" THEN RAdd(RInt(AnchorTierOffset), conf)
    ELSE conf

\* Accepted with "or" for "and" between the two thresholds
AcceptedEitherThreshold(evidence, conf, cov, min_conf, min_cov) ==
    IF evidence \in {"youtube:exact_phrase", "youtube:phrase_anchor"} THEN TRUE
    ELSE RLe(min_conf, conf) \/ RLe(min_cov, cov)

\* lines 299-303: ok
Accepted(evidence, conf, cov, min_conf, min_cov) ==
    IF evidence \in {"youtube:exact_phrase", "youtube:phrase_anchor"} THEN TRUE
    ELSE RLe(min_conf, conf) /\ RLe(min_cov, cov)

\* lines 288-290 and 312-321: item, of the candidate vid and its match m
EvalItem(vid, m, min_conf, min_cov) ==
    LET evidence == m.details.evidence
        conf == m.confidence
        cov == m.details.coverage
    IN  [ok |-> Accepted(evidence, conf, cov, min_conf, min_cov),
         id |-> vid,
         timestamp_start |-> m.timestamp_start,
         timestamp_end |-> m.timestamp_end,
         confidence |-> RRound(conf),
         details |-> m.details,
         score |-> RankScore(evidence, conf)]

\* the loop goes on after an exact_phrase match
NeverBreaks(evidence) == FALSE

\* lines 346-347: break
BreaksLoop(evidence) == evidence = "youtube:exact_phrase"

\* sorted(scored, key=_score) without reverse=True: ascending, stable
RankedAscending(items) ==
    LET Before(p, q) == \/ RLt(items[p].score, items[q].score)
                        \/ (items[p].score = items[q].score /\ p < q)
        Pos(p) == 1 + Cardinality({q \in 1..Len(items) : Before(q, p)})
    IN  [k \in 1..Len(items) |-> items[CHOOSE p \in 1..Len(items) : Pos(p) = k]]

\* line 362: sorted(scored, key=_score, reverse=True); the sort is stable, so
\* items of equal score keep the order in which they were appended
Ranked(items) ==
    LET Before(p, q) == \/ RLt(items[q].score, items[p].score)
                        \/ (items[p].score = items[q].score /\ p < q)
        Pos(p) == 1 + Cardinality({q \in 1..Len(items) : Before(q, p)})
    IN  [k \in 1..Len(items) |-> items[CHOOSE p \in 1..Len(items) : Pos(p) = k]]

\* lines 369-375 and 383-389: the fields of an item that are reported
Reported(it) ==
    [id |-> it.id,
     timestamp_start |-> it.timestamp_start,
     timestamp_end |-> it.timestamp_end,
     confidence |-> it.confidence,
     details |-> it.details]

\* lines 364-378: alternatives
Alternatives(ranked, chosen) ==
    LET F[k \in 0..Len(ranked)] ==
            IF k = 0 THEN <<>>
            ELSE LET prev == F[k - 1]
                 IN  IF Len(prev) >= MaxAlternatives THEN prev
                     ELSE IF ranked[k] = chosen THEN prev
                     ELSE Append(prev, Reported(ranked[k]))
    IN  F[Len(ranked)]

\* lines 350-356
NoMatchResult ==
    [ok |-> FALSE, error |-> "No match found", best |-> NoResult, alternatives |-> <<>>]

\* ok is true as soon as one item is accepted
FinalResultAnyAccepted(items, chosen) ==
    [ok |-> \E k \in 1..Len(items) : items[k].ok,
     error |-> IF chosen.ok THEN "None" ELSE "No confident match found",
     best |-> Reported(chosen),
     alternatives |-> Alternatives(Ranked(items), chosen)]

\* lines 380-392
FinalResult(items, chosen) ==
    [ok |-> chosen.ok,
     error |-> IF chosen.ok THEN "None" ELSE "No confident match found",
     best |-> Reported(chosen),
     alternatives |-> Alternatives(Ranked(items), chosen)]


(***************************************************************************)
(* Specification SpecCli: one run of main from the evaluation loop on.     *)
(* The snippet has 13 words.  The captions a candidate turns out to have   *)
(* are drawn from transcripts that make find_best_match return every kind  *)
(* of result.  A "wide" run visits at most MaxEvalWide candidates, each     *)
(* with any outcome, under any setting; a "deep" run visits at most        *)
(* MaxEvalDeep candidates, each with captions that match, under the        *)
(* default settings.  find_best_match is a function of the    *)
(* captions, the snippet and the windows, which a run does not change:     *)
(* found holds its value for each transcript, computed when the run starts.*)
(***************************************************************************)
MaxEvalWide == 3
MaxEvalDeep == 7

CliSnippet == PhraseSnippet(13, 1, TRUE)

\* the words of a transcript: k in 1..13 is the snippet's k-th word, 0 is
\* "x", and -k is the filler word "x" followed by the k-th letter
CliWord(k) ==
    IF k > 0 THEN PhraseWord(k, 1)
    ELSE IF k = 0 THEN <<"x">>
    ELSE <<"x">> \o PhraseWord(-k, 1)

\* two segments, the first of h words
CliSegs(ks, h) ==
    <<[NewSeg(1) EXCEPT !.text = Join([i \in 1..h |-> CliWord(ks[i])])],
      [NewSeg(2) EXCEPT !.text = Join([i \in 1..(Len(ks) - h) |-> CliWord(ks[h + i])])]>>

Down(n) == [i \in 1..n |-> n + 1 - i]

\* the whole snippet between two other words
TranscriptExact == CliSegs(<<0>> \o [i \in 1..13 |-> i] \o <<0>>, 7)
\* the snippet's first 12 words
TranscriptAnchor12 == CliSegs([i \in 1..12 |-> i] \o <<0>>, 6)
\* the snippet's first 8 words, and the last four after another word
TranscriptAnchor8 == CliSegs([i \in 1..8 |-> i] \o <<0, 10, 11, 12, 13>>, 6)
\* every word of the snippet, in reverse order
TranscriptAllWords == CliSegs(Down(13), 6)
\* seven words of the snippet, in reverse order
TranscriptSevenWords == CliSegs(Down(7), 3)
\* eight words of the snippet in reverse order, among eleven other words
TranscriptDiluted == CliSegs(Down(8) \o [i \in 1..11 |-> -i], 8)
\* eight words of the snippet in reverse order, among seven other words
TranscriptEightOfFifteen == CliSegs(Down(8) \o [i \in 1..7 |-> -i], 8)
\* three words of the snippet, in reverse order
TranscriptThreeWords == CliSegs(Down(3), 1)
\* no word of the snippet
TranscriptOther == CliSegs(<<0, 0>>, 1)

Captions(name) ==
    CASE name = "exact" -> TranscriptExact
      [] name = "anchor12" -> TranscriptAnchor12
      [] name = "anchor8" -> TranscriptAnchor8
      [] name = "all_words" -> TranscriptAllWords
      [] name = "seven_words" -> TranscriptSevenWords
      [] name = "diluted" -> TranscriptDiluted
      [] name = "eight_of_fifteen" -> TranscriptEightOfFifteen
      [] name = "three_words" -> TranscriptThreeWords
      [] name = "other" -> TranscriptOther

Transcripts(p) ==
    IF p = "wide"
    THEN {"exact", "anchor12", "anchor8", "all_words", "seven_words", "diluted",
          "eight_of_fifteen", "three_words", "other"}
    ELSE {"anchor8", "all_words", "three_words"}

\* MIN_CONFIDENCE and MIN_COVERAGE: the defaults and, in a wide run, two
\* other settings
Thresholds(p) ==
    {<<RInt(MIN_CONFIDENCE_DEFAULT), MIN_COVERAGE_DEFAULT>>}
    \cup (IF p = "wide" THEN {<<RInt(200), RInt(0)>>, <<RInt(0), RInt(1)>>} ELSE {})

\* WINDOW_WORDS and WINDOW_STRIDE in the environment: not set and, in a wide
\* run, set to 3 and 1, to 0 and 0, or to -1 and -2
Unset == [set |-> FALSE, value |-> 0]
SetTo(n) == [set |-> TRUE, value |-> n]
WindowSettings(p) ==
    {<<Unset, Unset>>}
    \cup (IF p = "wide"
          THEN {<<SetTo(3), SetTo(1)>>, <<SetTo(0), SetTo(0)>>, <<SetTo(-1), SetTo(-2)>>}
          ELSE {})

CliInit ==
    /\ mode = "cli"
    /\ IdleTok
    /\ pc = "loop"
    /\ IdleNorm
    /\ v_segs = <<>>
    /\ v_flat = NoResult
    /\ v_located = NoResult
    /\ v_snippet = CliSnippet
    /\ v_windows = <<>>
    /\ anchored = NoResult
    /\ fuzzy = NoResult
    /\ ret = NoResult
    /\ calls = <<>>
    /\ pool \in {"wide", "deep"}
    /\ \E th \in Thresholds(pool) : v_min_conf = th[1] /\ v_min_cov = th[2]
    /\ \E ws \in WindowSettings(pool) :
          /\ env_window_words = ws[1]
          /\ env_window_stride = ws[2]
          /\ v_window_words = WindowOrDefault(env_int(ws[1], WINDOW_WORDS_DEFAULT),
                                              WINDOW_WORDS_DEFAULT)
          /\ v_window_stride = WindowOrDefault(env_int(ws[2], WINDOW_STRIDE_DEFAULT),
                                               WINDOW_STRIDE_DEFAULT)
    /\ n_eval \in 1..(IF pool = "wide" THEN MaxEvalWide ELSE MaxEvalDeep)
    /\ trace = <<>>
    /\ scored = <<>>
    /\ best_item = NoResult
    /\ best_score = RInt(-1)
    /\ res = NoResult
    /\ found = [name \in Transcripts(pool) |->
                    find_best_match(Captions(name), v_snippet, v_window_words,
                                    v_window_stride)]

cfgVars == <<mode, normVars, v_segs, v_snippet, v_flat, matchVars, pool, v_min_conf,
             v_min_cov, n_eval, found, env_window_words, env_window_stride>>

\* line 281: the window size and stride find_best_match is called with
FindBestMatchCall == [window_words |-> v_window_words, window_stride |-> v_window_stride]

\* the candidate the loop is at
NextVid == Len(trace) + 1

\* where the loop stands once a candidate was left with "continue"
AfterContinue == IF NextVid = n_eval THEN "after_loop" ELSE "loop"

\* lines 247-250: the subtitles cannot be listed (status is never
\* "missing_ytdlp" here: main has resolved the path of yt-dlp at lines
\* 116-128, returning if there is none, and hands it to yt_dlp_has_subs)
EvalBotGate ==
    /\ mode = "cli"
    /\ pc = "loop"
    /\ pool = "wide"
    /\ trace' = Append(trace, [id |-> NextVid, stage |-> "listed", call |-> NoResult,
                         match |-> NoResult])
    /\ pc' = AfterContinue
    /\ UNCHANGED <<v_located, tokVars, cfgVars, scored, best_item, best_score, res>>

\* lines 255-270: the download of the captions fails
EvalDownloadFailed ==
    /\ mode = "cli"
    /\ pc = "loop"
    /\ pool = "wide"
    /\ trace' = Append(trace, [id |-> NextVid, stage |-> "downloaded", call |-> NoResult,
                         match |-> NoResult])
    /\ pc' = AfterContinue
    /\ UNCHANGED <<v_located, tokVars, cfgVars, scored, best_item, best_score, res>>

\* lines 272-279: the captions hold no segment
EvalNoSegs ==
    /\ mode = "cli"
    /\ pc = "loop"
    /\ pool = "wide"
    /\ trace' = Append(trace, [id |-> NextVid, stage |-> "parsed", call |-> NoResult,
                         match |-> NoResult])
    /\ pc' = AfterContinue
    /\ UNCHANGED <<v_located, tokVars, cfgVars, scored, best_item, best_score, res>>

\* lines 281-286: find_best_match finds nothing
EvalNoMatch ==
    /\ mode = "cli"
    /\ pc = "loop"
    /\ \E name \in Transcripts(pool) :
          /\ found[name] = NoResult
          /\ trace' = Append(trace, [id |-> NextVid, stage |-> "matched",
                                    call |-> FindBestMatchCall, match |-> NoResult])
    /\ pc' = AfterContinue
    /\ UNCHANGED <<v_located, tokVars, cfgVars, scored, best_item, best_score, res>>

\* lines 281-347: find_best_match returns a match
EvalMatch ==
    /\ mode = "cli"
    /\ pc = "loop"
    /\ \E name \in Transcripts(pool) :
          LET m == found[name]
              item == EvalItem(NextVid, m, v_min_conf, v_min_cov)
              better == RLt(best_score, item.score)
          IN  /\ m # NoResult
              /\ trace' = Append(trace, [id |-> NextVid, stage |-> "matched",
                                        call |-> FindBestMatchCall, match |-> m])
              /\ scored' = Append(scored, item)
              /\ best_score' = IF better THEN item.score ELSE best_score
              /\ best_item' = IF better THEN item ELSE best_item
              /\ pc' = IF BreaksLoop(m.details.evidence) \/ NextVid = n_eval
                       THEN "after_loop" ELSE "loop"
    /\ UNCHANGED <<v_located, tokVars, cfgVars, res>>

\* lines 349-398: the result is written
Finish ==
    /\ mode = "cli"
    /\ pc = "after_loop"
    /\ res' = IF best_item = NoResult THEN NoMatchResult
              ELSE FinalResult(scored, best_item)
    /\ pc' = "done"
    /\ UNCHANGED <<v_located, tokVars, cfgVars, trace, scored, best_item, best_score>>

CliNext ==
    \/ EvalBotGate
    \/ EvalDownloadFailed
    \/ EvalNoSegs
    \/ EvalNoMatch
    \/ EvalMatch
    \/ Finish

SpecCli == CliInit /\ [][CliNext]_vars


InCli == mode = "cli"

\* the rank of an evidence tier
Tier(evidence) ==
    CASE evidence = "youtube:exact_phrase" -> 3
      [] evidence = "youtube:phrase_anchor" -> 2
      [] evidence = "youtube:timed_transcript" -> 1

\* C2: of any two matches the evaluation loop has scored, the one of the
\* higher tier (exact_phrase over phrase_anchor over timed_transcript) has
\* the strictly higher ranking score, whatever their confidences.
C2_TierOrdering ==
    InCli =>
        \A a, b \in 1..Len(scored) :
            Tier(trace[scored[a].id].match.details.evidence)
                > Tier(trace[scored[b].id].match.details.evidence)
            => RLt(scored[b].score, scored[a].score)

\* a timed_transcript match of confidence above 100 was scored below a
\* phrase_anchor match of confidence 88
C2_Witness ==
    /\ InCli
    /\ Len(scored) >= 2
    /\ trace[scored[1].id].match.details.evidence = "youtube:timed_transcript"
    /\ RLt(RInt(100), trace[scored[1].id].match.confidence)
    /\ trace[scored[2].id].match.details.evidence = "youtube:phrase_anchor"
    /\ trace[scored[2].id].match.confidence = RInt(88)
    /\ RLt(scored[1].score, scored[2].score)

\* C4: a candidate's accepted flag is true if and only if the evidence of
\* its match is exact_phrase or phrase_anchor, or it is timed_transcript and
\* both the match's confidence >= MIN_CONFIDENCE and its coverage >=
\* MIN_COVERAGE.
C4_AcceptedFlag ==
    InCli =>
        \A a \in 1..Len(scored) :
            LET m == trace[scored[a].id].match
            IN  scored[a].ok <=>
                    \/ m.details.evidence \in {"youtube:exact_phrase", "youtube:phrase_anchor"}
                    \/ /\ m.details.evidence = "youtube:timed_transcript"
                       /\ RLe(v_min_conf, m.confidence)
                       /\ RLe(v_min_cov, m.details.coverage)

\* under the default thresholds, a timed_transcript match that reaches
\* MIN_CONFIDENCE but not MIN_COVERAGE was rejected, one that reaches
\* MIN_COVERAGE but not MIN_CONFIDENCE was rejected, and one that reaches both
\* was accepted
C4_Witness ==
    /\ InCli
    /\ v_min_conf = RInt(70)
    /\ v_min_cov = Rat(55, 100)
    /\ Len(scored) = 3
    /\ \A a \in 1..3 : scored[a].details.evidence = "youtube:timed_transcript"
    /\ RLe(v_min_conf, trace[scored[1].id].match.confidence)
    /\ RLt(scored[1].details.coverage, v_min_cov)
    /\ ~scored[1].ok
    /\ RLt(trace[scored[2].id].match.confidence, v_min_conf)
    /\ RLe(v_min_cov, scored[2].details.coverage)
    /\ ~scored[2].ok
    /\ scored[3].ok

\* the matched candidates so far, as the set of their items
Matched == {scored[a] : a \in 1..Len(scored)}

\* it comes before other in the descending order of the ranking scores,
\* equal scores in the order of evaluation
Outranks(it, other) ==
    \/ RLt(other.score, it.score)
    \/ (it.score = other.score /\ it.id < other.id)

\* C5: after evaluations with at least one match, the reported best is the
\* top entry of all matched candidates (accepted and rejected) in descending
\* order of ranking score, and the alternatives are the next entries in that
\* order, at most 5 of them, the best not among them.
C5_BestAndAlternatives ==
    (InCli /\ pc = "done" /\ scored # <<>>) =>
        LET alts == res.alternatives
            ItemOf(r) == CHOOSE it \in Matched : it.id = r.id
            reported == {res.best.id} \cup {alts[k].id : k \in 1..Len(alts)}
        IN  /\ Matched = {EvalItem(k, trace[k].match, v_min_conf, v_min_cov) :
                              k \in {j \in 1..Len(trace) : trace[j].match # NoResult}}
            /\ \E it \in Matched : res.best = Reported(it)
            /\ \A it \in Matched : it.id # res.best.id => Outranks(ItemOf(res.best), it)
            /\ Len(alts) = Min2(MaxAlternatives, Cardinality(Matched) - 1)
            /\ \A k \in 1..Len(alts) :
                  /\ \E it \in Matched : alts[k] = Reported(it)
                  /\ alts[k].id # res.best.id
                  /\ \A l \in (k + 1)..Len(alts) : Outranks(ItemOf(alts[k]), ItemOf(alts[l]))
                  /\ \A it \in Matched :
                        it.id \notin reported => Outranks(ItemOf(alts[k]), it)

\* seven candidates matched, two of them with the top score; the first of
\* these is the best, five alternatives are reported, a rejected one among
\* them, and one match is left out
C5_Witness ==
    /\ InCli
    /\ pc = "done"
    /\ Len(scored) = 7
    /\ scored[2].score = scored[5].score
    /\ \A a \in 1..7 : RLe(scored[a].score, scored[2].score)
    /\ RLt(scored[1].score, scored[2].score)
    /\ res.best.id = 2
    /\ Len(res.alternatives) = 5
    /\ res.alternatives[1].id = 5
    /\ \E k \in 1..5 : ~(CHOOSE it \in Matched : it.id = res.alternatives[k].id).ok

\* C6: once a candidate's match is an exact_phrase match, the loop is left
\* and no later candidate is listed, downloaded, parsed or matched; the
\* result reports that candidate as the best.
C6_ExactStopsLoop ==
    InCli =>
        \A k \in 1..Len(trace) :
            (trace[k].match # NoResult
                 /\ trace[k].match.details.evidence = "youtube:exact_phrase") =>
                /\ Len(trace) = k
                /\ pc \in {"after_loop", "done"}
                /\ pc = "done" =>
                      /\ res.best # NoResult
                      /\ res.best.id = trace[k].id
                      /\ res.best.details.evidence = "youtube:exact_phrase"

\* of three candidates the first had a timed_transcript match of confidence
\* above 100 and the second an exact_phrase match: the third was not visited
\* and the second is the best
C6_Witness ==
    /\ InCli
    /\ pc = "done"
    /\ n_eval = 3
    /\ Len(trace) = 2
    /\ trace[1].match # NoResult
    /\ RLt(RInt(100), trace[1].match.confidence)
    /\ trace[2].match # NoResult
    /\ trace[2].match.details.evidence = "youtube:exact_phrase"
    /\ res.best.id = 2
    /\ Len(res.alternatives) = 1


\* best_fuzzy_match was called and has returned, the stride being at least 1
FuzzyReturned ==
    /\ InMatch
    /\ pc = "done"
    /\ calls = <<"exact_phrase_anchor", "best_fuzzy_match">>
    /\ v_window_stride >= 1

\* the offsets of the windows best_fuzzy_match evaluates in a stream of n
\* words: 0, S, 2S, ... below max(1, n - W + 1); none if the snippet has no
\* token or the stream no word
WindowStarts(n, toks, W, S) ==
    IF n = 0 \/ toks = <<>> THEN {}
    ELSE {i \in 0..(Max2(1, n - W + 1) - 1) : i % S = 0}

\* the window at offset i
WindowAt(ws, i, W) == SubSeq(ws, i + 1, Min2(Len(ws), i + W))

\* coverage*100 + similarity*40 - length_penalty*5 of the window w
WindowScore(toks, w) ==
    RSub(RAdd(RMul(coverage_ratio(toks, w), RInt(100)), RMul(jaccard(toks, w), RInt(40))),
         RMul(RMin(RInt(1), Rat(Len(w), Max2(1, Len(toks)))), RInt(5)))

\* the evaluated windows of coverage >= 0.20
Eligible(ws, toks, W, S) ==
    {i \in WindowStarts(Len(ws), toks, W, S) :
        RLe(Rat(20, 100), coverage_ratio(toks, WindowAt(ws, i, W)))}

\* the eligible windows of maximal score
Maximal(ws, toks, W, S) ==
    {i \in Eligible(ws, toks, W, S) :
        \A k \in Eligible(ws, toks, W, S) :
            RLe(WindowScore(toks, WindowAt(ws, k, W)), WindowScore(toks, WindowAt(ws, i, W)))}

\* C11: best_fuzzy_match returns none exactly when no evaluated window has
\* coverage >= 0.20; otherwise it returns the result of the earliest
\* evaluated window whose score is maximal among the windows of coverage
\* >= 0.20, with evidence timed_transcript and the score as confidence.
C11_FuzzyBestWindow ==
    FuzzyReturned =>
        LET toks == tokenize(v_snippet)
            ws == tokenize(ConcatTexts(v_segs))
            W == v_window_words
            top == Maximal(ws, toks, W, v_window_stride)
        IN  /\ fuzzy = NoResult <=> Eligible(ws, toks, W, v_window_stride) = {}
            /\ fuzzy # NoResult =>
                  LET w == WindowAt(ws, LeastOf(top), W)
                  IN  /\ IsTimedTranscript(fuzzy)
                      /\ fuzzy.confidence = WindowScore(toks, w)
                      /\ fuzzy.details.coverage = Round3(coverage_ratio(toks, w))
                      /\ fuzzy.details.similarity = Round3(jaccard(toks, w))
                      /\ fuzzy.details.preview = Take(Join(Take(w, 60)), 280)

\* best_fuzzy_match returned the first of several windows that share the
\* maximal score, a window of lower score having coverage >= 0.20 too
C11_Witness ==
    /\ FuzzyReturned
    /\ fuzzy # NoResult
    /\ LET toks == tokenize(v_snippet)
           ws == tokenize(ConcatTexts(v_segs))
           top == Maximal(ws, toks, v_window_words, v_window_stride)
       IN  /\ Cardinality(top) >= 2
           /\ Eligible(ws, toks, v_window_words, v_window_stride) # top
           /\ fuzzy.details.preview
                  = Join(WindowAt(ws, LeastOf(top), v_window_words))
           /\ \E i \in top : WindowAt(ws, i, v_window_words)
                                 # WindowAt(ws, LeastOf(top), v_window_words)


\* the seconds a formatted HH:MM:SS stands for
HmsSeconds(t) == t[1] * 3600 + t[2] * 60 + t[3]

\* every segment ends no earlier than it starts
EndsAfterStarts(ss) == \A i \in 1..Len(ss) : RLe(ss[i].start, ss[i].end)

\* C16: for a segment list whose segments all have end >= start, every
\* MatchResult find_best_match returns (exact, anchor or fuzzy, tightened or
\* not) has a timestamp_end that is not earlier than its timestamp_start.
C16_EndNotBeforeStart ==
    (InMatch /\ pc = "done" /\ ret # NoResult /\ ret.tag = "MatchResult"
        /\ EndsAfterStarts(v_segs))
        => HmsSeconds(ret.timestamp_end) >= HmsSeconds(ret.timestamp_start)

\* the snippet's words and the transcript's words share a contiguous run of n
SharedRun(toks, ws, n) ==
    \E j \in 0..(Len(toks) - n), i \in 0..(Len(ws) - n) :
        SubSeq(ws, i + 1, i + n) = SubSeq(toks, j + 1, j + n)

\* C17: a timed_transcript result of find_best_match that records a tightening
\* n-gram records one of fewer than 8 words, and when the snippet and the
\* transcript share a contiguous run of 8 words or more the result is an
\* exact_phrase or a phrase_anchor one, never a fuzzy one.
C17_TightenedBelowAnchor ==
    (InMatch /\ pc = "done") =>
        /\ (IsTimedTranscript(ret) /\ ret.details.tightened_by_ngram)
               => ret.details.ngram_n < 8
        /\ SharedRun(tokenize(v_snippet), tokenize(ConcatTexts(v_segs)), 8)
               => (ret # NoResult /\ ret.tag = "MatchResult" /\ ~IsTimedTranscript(ret))

\* a snippet of at least 8 words shares a run of 7 words with the transcript:
\* no anchor was found and the fuzzy result was tightened to those 7 words
C17_Witness ==
    /\ InMatch
    /\ pc = "done"
    /\ Len(tokenize(v_snippet)) >= 8
    /\ anchored = NoResult
    /\ IsTimedTranscript(ret)
    /\ ret.details.tightened_by_ngram
    /\ ret.details.ngram_n = 7
    /\ SharedRun(tokenize(v_snippet), tokenize(ConcatTexts(v_segs)), 7)

\* C18: with window_words >= 1 and 1 <= window_stride <= window_words, every
\* word of the transcript's word stream lies inside at least one of the
\* windows best_fuzzy_match evaluated.
C18_WindowsCoverStream ==
    (FuzzyReturned /\ v_windows # <<>>
        /\ v_window_words >= 1 /\ v_window_stride >= 1
        /\ v_window_stride <= v_window_words)
        => \A k \in 1..Len(WordStream(v_segs).words) :
               \E x \in 1..Len(v_windows) :
                   v_windows[x][1] < k /\ k <= v_windows[x][2]

\* C19 as stated: when the loop ends with at least one matched candidate, the
\* overall ok flag is true whenever some evaluated candidate was accepted; if
\* the reported best is rejected, every matched candidate is rejected.
C19_OkWhenAnyAcceptedAsStated ==
    (InCli /\ pc = "done" /\ scored # <<>>) =>
        /\ (\E it \in Matched : it.ok) => res.ok
        /\ ~res.ok => \A it \in Matched : ~it.ok

\* C19: when the loop ends with at least one matched candidate, the overall
\* ok flag is the accepted flag of the reported best, the matched candidate
\* of the highest ranking score: it is true whenever some matched candidate
\* is exact_phrase or phrase_anchor, and when it is false every matched
\* candidate is a timed_transcript one whose score does not exceed the
\* best's, accepted or not.
C19_OkIsBestAccepted ==
    (InCli /\ pc = "done" /\ scored # <<>>) =>
        LET m == trace[res.best.id].match
        IN  /\ res.ok <=> Accepted(m.details.evidence, m.confidence, m.details.coverage,
                                    v_min_conf, v_min_cov)
            /\ (\E it \in Matched : Tier(it.details.evidence) >= 2) => res.ok
            /\ ~res.ok => \A it \in Matched :
                              /\ Tier(it.details.evidence) = 1
                              /\ RLe(it.score, RankScore(m.details.evidence, m.confidence))

\* under the default thresholds the best of two timed_transcript matches is
\* rejected for its coverage and the run is not ok, while the other match,
\* of lower confidence, is accepted and listed as an alternative
C19_Witness ==
    /\ InCli
    /\ pc = "done"
    /\ v_min_conf = RInt(70)
    /\ v_min_cov = Rat(55, 100)
    /\ Len(scored) = 2
    /\ ~res.ok
    /\ res.error = "No confident match found"
    /\ res.best.id = scored[1].id
    /\ ~scored[1].ok
    /\ scored[2].ok
    /\ Len(res.alternatives) = 1
    /\ res.alternatives[1].id = scored[2].id

\* C13: a WINDOW_WORDS below 1 is replaced by 80 and a WINDOW_STRIDE below 1
\* by 12 before any candidate is evaluated: every call of find_best_match has
\* window_words >= 1 and window_stride >= 1.
C13_WindowDefaults ==
    InCli =>
        /\ v_window_words >= 1
        /\ v_window_stride >= 1
        /\ (env_window_words.set /\ env_window_words.value < 1) => v_window_words = 80
        /\ (env_window_stride.set /\ env_window_stride.value < 1) => v_window_stride = 12
        /\ \A k \in 1..Len(trace) :
              trace[k].stage = "matched" =>
                  /\ trace[k].call.window_words = v_window_words
                  /\ trace[k].call.window_stride = v_window_stride
                  /\ trace[k].call.window_words >= 1
                  /\ trace[k].call.window_stride >= 1

\* WINDOW_WORDS=0 and WINDOW_STRIDE=0: find_best_match was called with 80
\* and 12
C13_Witness ==
    /\ InCli
    /\ env_window_words = SetTo(0)
    /\ env_window_stride = SetTo(0)
    /\ Len(trace) >= 1
    /\ trace[1].stage = "matched"
    /\ trace[1].match # NoResult
    /\ trace[1].call = [window_words |-> 80, window_stride |-> 12]

(***************************************************************************)
(* Specification SpecTokens: coverage_ratio and tighten_with_ngram applied *)
(* to every snippet of at most MaxSnippetTokens tokens and every window of *)
(* at most MaxWindowTokens tokens over two words, and to longer inputs of  *)
(* distinct words.  The k-th word of the window has the times 2(k-1), 2k.  *)
(***************************************************************************)
MaxSnippetTokens == 5
MaxWindowTokens == 5

TokWords == {<<"a">>, <<"b">>}
\* the words a window can be extended by: the two above, and another one
TokMoreWords == TokWords \cup {<<"x">>}

\* words lo..hi of the alphabet
WordRun(lo, hi) == [i \in 1..(hi - lo + 1) |-> PhraseWord(lo + i - 1, 1)]

\* longer inputs: 14 distinct words against themselves, against the first 13
\* of them and against themselves with the 8th replaced; and six words
\* against a window that holds the last five before the first five
TokLongInputs ==
    {<<WordRun(1, 14), WordRun(1, 14)>>,
     <<WordRun(1, 14), WordRun(1, 13)>>,
     <<WordRun(1, 14), WordRun(1, 7) \o <<<<"x">>>> \o WordRun(9, 14)>>,
     <<WordRun(1, 6), WordRun(2, 6) \o <<<<"x">>>> \o WordRun(1, 5)>>}

\* window_word_times of a window of n words
WordTimes(n) == [k \in 1..n |-> <<RInt(2 * (k - 1)), RInt(2 * k)>>]

TokInit ==
    /\ mode = "tokens"
    /\ pc = "input"
    /\ IdleNorm
    /\ IdleSegs
    /\ IdleMatch
    /\ IdleCli
    /\ \/ tok_snippet = <<>> /\ tok_window = <<>>
       \/ \E io \in TokLongInputs : tok_snippet = io[1] /\ tok_window = io[2]
    /\ tok_cov = RInt(0)
    /\ tok_cov_more = RInt(0)
    /\ tok_tightened = NoResult

tokOther == <<mode, v_located, normVars, v_segs, v_snippet, v_flat, matchVars, cliVars>>

\* the snippet has one more token
TokSnippetToken ==
    /\ mode = "tokens"
    /\ pc = "input"
    /\ Len(tok_snippet) < MaxSnippetTokens
    /\ \E t \in TokWords : tok_snippet' = Append(tok_snippet, t)
    /\ UNCHANGED <<tokOther, pc, tok_window, tok_cov, tok_cov_more, tok_tightened>>

\* the window has one more word
TokWindowWord ==
    /\ mode = "tokens"
    /\ pc = "input"
    /\ Len(tok_window) < MaxWindowTokens
    /\ \E t \in TokWords : tok_window' = Append(tok_window, t)
    /\ UNCHANGED <<tokOther, pc, tok_snippet, tok_cov, tok_cov_more, tok_tightened>>

\* cov = coverage_ratio(snippet_tokens, window_tokens)
TokCoverage ==
    /\ mode = "tokens"
    /\ pc = "input"
    /\ tok_cov' = coverage_ratio(tok_snippet, tok_window)
    /\ pc' = "covered"
    /\ UNCHANGED <<tokOther, tok_snippet, tok_window, tok_cov_more, tok_tightened>>

\* coverage_ratio again, of the window with one more word
TokCoverageMore ==
    /\ mode = "tokens"
    /\ pc = "covered"
    /\ \E t \in TokMoreWords \cup SetOf(tok_snippet) :
          /\ tok_window' = Append(tok_window, t)
          /\ tok_cov_more' = coverage_ratio(tok_snippet, tok_window')
    /\ pc' = "covered_more"
    /\ UNCHANGED <<tokOther, tok_snippet, tok_cov, tok_tightened>>

\* tightened = tighten_with_ngram(window_tokens, word_times[i:j],
\*                                snippet_tokens, min_n=4, max_n=12)
TokTighten ==
    /\ mode = "tokens"
    /\ pc = "input"
    /\ tok_tightened' = tighten_with_ngram(tok_window, WordTimes(Len(tok_window)),
                                           tok_snippet, TightenMinN, TightenMaxN)
    /\ pc' = "tightened"
    /\ UNCHANGED <<tokOther, tok_snippet, tok_window, tok_cov, tok_cov_more>>

TokNext ==
    \/ TokSnippetToken
    \/ TokWindowWord
    \/ TokCoverage
    \/ TokCoverageMore
    \/ TokTighten

SpecTokens == TokInit /\ [][TokNext]_vars

\* C12: coverage_ratio lies in [0, 1], and appending a word to the window (a
\* snippet token missing from it in particular) never decreases it.
C12_CoverageMonotonic ==
    /\ (mode = "tokens" /\ pc \in {"covered", "covered_more"}) =>
           (RLe(RInt(0), tok_cov) /\ RLe(tok_cov, RInt(1)))
    /\ (mode = "tokens" /\ pc = "covered_more") =>
           /\ RLe(tok_cov, tok_cov_more)
           /\ RLe(RInt(0), tok_cov_more)
           /\ RLe(tok_cov_more, RInt(1))

\* the snippet "a b": the window "a a" covers half of it, and all of it once
\* the missing "b" is appended
C12_Witness ==
    /\ mode = "tokens"
    /\ pc = "covered_more"
    /\ tok_snippet = <<<<"a">>, <<"b">>>>
    /\ tok_window = <<<<"a">>, <<"a">>, <<"b">>>>
    /\ tok_cov = Rat(1, 2)
    /\ tok_cov_more = Rat(1, 1)


\* the offsets j at which the n-gram of the snippet occurs somewhere in the
\* window
SharedAt(n) ==
    {j \in 0..(Len(tok_snippet) - n) :
        \E i \in 0..(Len(tok_window) - n) :
            SubSeq(tok_window, i + 1, i + n) = SubSeq(tok_snippet, j + 1, j + n)}

\* the lengths 4..12 at which the snippet and the window share an n-gram
SharedLengths == {n \in 4..12 : SharedAt(n) # {}}

\* C14: tighten_with_ngram returns none exactly when the snippet tokens and
\* the window tokens share no contiguous n-gram of length 4..12; otherwise
\* it returns the greatest such length n, with the earliest-starting snippet
\* n-gram of that length, located at its first position in the window, and
\* the time range from the start of its first window word to the end of
\* its last.
C14_TightenLongestShared ==
    (mode = "tokens" /\ pc = "tightened") =>
        /\ tok_tightened = NoResult <=> SharedLengths = {}
        /\ tok_tightened # NoResult =>
              LET n == GreatestOf(SharedLengths)
                  j == LeastOf(SharedAt(n))
                  gram == SubSeq(tok_snippet, j + 1, j + n)
                  i0 == LeastOf({i \in 0..(Len(tok_window) - n) :
                                     SubSeq(tok_window, i + 1, i + n) = gram})
              IN  /\ n <= Min3(12, Len(tok_snippet), Len(tok_window))
                  /\ tok_tightened.n = n
                  /\ tok_tightened.key = Join(gram)
                  /\ tok_tightened.st = WordTimes(Len(tok_window))[i0 + 1][1]
                  /\ tok_tightened.et = WordTimes(Len(tok_window))[i0 + n][2]

\* six words against a window holding words 2..6 before words 1..5: the
\* 5-gram that starts the snippet is used, found at the window's 7th word
C14_Witness ==
    /\ mode = "tokens"
    /\ pc = "tightened"
    /\ tok_snippet = WordRun(1, 6)
    /\ tok_window = WordRun(2, 6) \o <<<<"x">>>> \o WordRun(1, 5)
    /\ tok_tightened # NoResult
    /\ tok_tightened.n = 5
    /\ tok_tightened.key = Join(WordRun(1, 5))
    /\ tok_tightened.st = RInt(12)
    /\ tok_tightened.et = RInt(22)

=============================================================================
